---- MODULE Spec2Model ----
(***************************************************************************)
(* QuickPoll backend: the poll store (models.py), the request handlers of  *)
(* main.py and the in-memory ConnectionManager (websocket_manager.py).     *)
(*                                                                         *)
(* Scheduling.  Every handler is an `async def` run by one asyncio event   *)
(* loop; the database calls are synchronous.  A handler therefore runs     *)
(* without interruption from one suspension to the next, and the only      *)
(* suspensions are the network awaits: websocket.accept(), send_json() and *)
(* receive_text().  ConnectionManager._lock is only ever held over code    *)
(* that does not await, so `async with self._lock` finds it free and does  *)
(* not suspend.  One action of this model is one such run: from the        *)
(* resumption of a handler up to and including its next network call.      *)
(*                                                                         *)
(* send_json(m) on a socket writes the frame when it is called (wire, in   *)
(* call order) and returns or raises when the handler is resumed: it       *)
(* raises iff the peer has closed the socket by then.                      *)
(***************************************************************************)
EXTENDS Integers, Sequences, FiniteSets, TLC

\* ------------------------------------------------------------- bounds
NumObs    == 2     \* websocket connections opened in a run
MaxReq    == 2     \* mutation requests (create / vote / like) issued in a run
InitPolls == 1     \* polls the database file may hold when the process starts
NewPolls  == 1     \* polls created in a run
MaxOpts   == 2     \* length of the option list of a create request

MaxPolls  == InitPolls + NewPolls

Observers == 1..NumObs
Tasks     == 1..MaxReq
PollIds   == 1..MaxPolls
OptionIds == 1..(MaxPolls * MaxOpts)

\* ------------------------------------------------------------- text
\* A string is a sequence of characters, so that str.strip() is computed.
Blank  == " "
T_a    == <<"a">>
T_sp   == <<Blank>>
T_q    == <<Blank, "q", Blank>>

OptionTexts == {T_a, T_sp}
Questions   == {T_q}

RECURSIVE LStrip(_)
LStrip(s) == IF s # <<>> /\ Head(s) = Blank THEN LStrip(Tail(s)) ELSE s

RECURSIVE RStrip(_)
RStrip(s) ==
    IF s # <<>> /\ s[Len(s)] = Blank THEN RStrip(SubSeq(s, 1, Len(s) - 1)) ELSE s

\* str.strip()
Strip(s) == RStrip(LStrip(s))

\* (faulty variant: a text already kept is not kept again)
RECURSIVE CleanOptions_Dedup(_)
CleanOptions_Dedup(opts) ==
    IF opts = <<>> THEN <<>>
    ELSE LET front == CleanOptions_Dedup(SubSeq(opts, 1, Len(opts) - 1))
             last  == Strip(opts[Len(opts)])
         IN  IF last # <<>> /\ \A i \in 1..Len(front) : front[i] # last
             THEN Append(front, last)
             ELSE front

\* [option.strip() for option in payload.options if option.strip()]
RECURSIVE CleanOptions(_)
CleanOptions(opts) ==
    IF opts = <<>> THEN <<>>
    ELSE IF Strip(Head(opts)) # <<>>
         THEN <<Strip(Head(opts))>> \o CleanOptions(Tail(opts))
         ELSE CleanOptions(Tail(opts))

\* the option lists a create request may carry
OptionLists == UNION {[1..n -> OptionTexts] : n \in 0..MaxOpts}

\* ------------------------------------------------------------- state
VARIABLES
    polls,        \* table poll: sequence indexed by Poll.id
    options,      \* table poll_option: sequence indexed by PollOption.id
    connections,  \* ConnectionManager._connections
    lock,         \* ConnectionManager._lock: "free" or "held"
    ws,           \* per websocket: position of websocket_endpoint
    open,         \* per websocket: the peer has not closed it
    stalled,      \* websockets whose peer stopped reading: a send never returns
    wire,         \* per websocket: frames written by send_json, in call order
    snapSent,     \* per websocket: the poll_snapshot send_json has returned
    absent,       \* websockets that disconnect() found already out of the set
    req,          \* per request: the handler's locals and position
    nreq,         \* requests issued so far
    hist          \* per request: what happened during its broadcast

vars ==
    <<polls, options, connections, lock, ws, open, stalled, wire, snapSent, absent, req, nreq,
      hist>>

NoPoll == [id |-> 0, question |-> <<>>, likes |-> 0, options |-> <<>>]
NoMsg  == [type |-> "none", req |-> 0, poll |-> NoPoll, polls |-> <<>>]

\* a request that has not been issued
NoReq ==
    [kind |-> "none", poll_id |-> 0, option_id |-> 0, pc |-> "new", status |-> 0,
     result |-> NoPoll, message |-> NoMsg, connections |-> <<>>, idx |-> 0, stale |-> {}]

NoRow  == [likes |-> 0, votes |-> <<>>]
NoHist ==
    [liveAtSnap |-> {}, alwaysLive |-> {}, joined |-> {}, failed |-> {}, committed |-> NoRow]

\* ------------------------------------------------------------- store
\* Poll(question=...): likes defaults to 0
NewPoll(question) == [question |-> question, likes |-> 0]

\* PollOption(text=...), attached to its poll: votes defaults to 0
NewOption(text, pollId) == [text |-> text, votes |-> 0, poll_id |-> pollId]

\* the ids in S, ascending
RECURSIVE Ascending(_)
Ascending(S) ==
    IF S = {} THEN <<>>
    ELSE LET m == CHOOSE x \in S : \A y \in S : x <= y
         IN  <<m>> \o Ascending(S \ {m})

\* poll.options: the rows of poll_option whose poll_id is the poll's id
OptionsOf(os, pid) == Ascending({i \in 1..Len(os) : os[i].poll_id = pid})

\* PollRead.model_validate(poll): id, question, likes, options[id, text, votes]
serialize_poll(ps, os, pid) ==
    [id       |-> pid,
     question |-> ps[pid].question,
     likes    |-> ps[pid].likes,
     options  |-> [i \in 1..Len(OptionsOf(os, pid)) |->
                     [id    |-> OptionsOf(os, pid)[i],
                      text  |-> os[OptionsOf(os, pid)[i]].text,
                      votes |-> os[OptionsOf(os, pid)[i]].votes]]]

\* (faulty variant: the newest poll is left out of the snapshot)
SnapshotPolls_DropNewest(ps, os) ==
    [i \in 1..(Len(ps) - 1) |-> serialize_poll(ps, os, Len(ps) - i)]

\* select(Poll).order_by(Poll.created_at.desc()): newest first
SnapshotPolls(ps, os) ==
    [i \in 1..Len(ps) |-> serialize_poll(ps, os, Len(ps) + 1 - i)]

\* ------------------------------------------------------------- init
\* The store is the file polls.db, which outlives the process: at startup it
\* holds the polls created by earlier runs (here k of them, never voted on).
SeedPolls(k) == [p \in 1..k |-> NewPoll(Strip(T_q))]
SeedOptions(k) == [i \in 1..(2 * k) |-> NewOption(T_a, (i + 1) \div 2)]

Init ==
    /\ \E k \in 0..InitPolls : polls = SeedPolls(k) /\ options = SeedOptions(k)
    /\ connections = {}
    /\ lock = "free"
    /\ ws = [o \in Observers |-> "idle"]
    /\ open = [o \in Observers |-> TRUE]
    /\ stalled = {}
    /\ wire = [o \in Observers |-> <<>>]
    /\ snapSent = [o \in Observers |-> FALSE]
    /\ absent = {}
    /\ req = [t \in Tasks |-> NoReq]
    /\ nreq = 0
    /\ hist = [t \in Tasks |-> NoHist]

\* ------------------------------------------------------------- registry
\* (faulty variant: the websocket is accepted but not put in the set)
Add_Forgotten(conns, o) == conns

\* self._connections.add(websocket)
Add(conns, o) == conns \cup {o}

\* (faulty variant: set.remove, which raises KeyError on an absent element)
Discard_Remove(conns, o) == [set |-> conns \ {o}, raised |-> o \notin conns]

\* self._connections.discard(websocket): never raises
Discard(conns, o) == [set |-> conns \ {o}, raised |-> FALSE]

\* list(self._connections): the elements in the set's iteration order
ListsOf(S) ==
    {s \in [1..Cardinality(S) -> S] : \A i, j \in 1..Cardinality(S) : s[i] = s[j] => i = j}

\* (faulty variant: the set is rebuilt from the list the loop went through)
Cleanup_FromSnapshot(conns, listed, stale) ==
    {listed[i] : i \in 1..Len(listed)} \ stale

\* for connection in stale: self._connections.discard(connection)
\* (listed is the local list `connections` the loop went through)
Cleanup(conns, listed, stale) == conns \ stale

\* hist of the broadcasts in progress, once the live set is c: who was live
\* all along, who joined meanwhile
HistLive(h, c) ==
    [t \in Tasks |->
        IF req[t].pc = "sending"
        THEN [h[t] EXCEPT !.alwaysLive = @ \cap c, !.joined = @ \cup (c \ connections)]
        ELSE h[t]]

\* ------------------------------------------------------------- websocket_endpoint
\* A client opens /ws: the handler starts and awaits websocket.accept().
WsOpen(o) ==
    /\ ws[o] = "idle"
    /\ \A p \in Observers : p < o => ws[p] # "idle"
    /\ ws' = [ws EXCEPT ![o] = "accepting"]
    /\ UNCHANGED <<polls, options, connections, lock, open, stalled, wire, snapSent, absent, req, nreq, hist>>

\* the frame of the initial snapshot
SnapshotMsg(ps, os) ==
    [type |-> "poll_snapshot", req |-> 0, poll |-> NoPoll, polls |-> SnapshotPolls(ps, os)]

\* (faulty variant: the socket is registered but no snapshot is written)
WsAccepted_NoSnapshot(o) ==
    /\ ws[o] = "accepting"
    /\ IF open[o]
       THEN /\ lock = "free"
            /\ connections' = connections \cup {o}
            /\ wire' = wire
            /\ ws' = [ws EXCEPT ![o] = "snapshot"]
            /\ hist' = [t \in Tasks |->
                           IF req[t].pc = "sending"
                           THEN [hist[t] EXCEPT !.joined = @ \cup ({o} \ connections)]
                           ELSE hist[t]]
       ELSE /\ ws' = [ws EXCEPT ![o] = "done"]
            /\ UNCHANGED <<connections, wire, hist>>
    /\ UNCHANGED <<polls, options, lock, open, stalled, snapSent, absent, req, nreq>>

\* accept() returns: register under the lock, read the polls, call send_json.
\* accept() raises (peer gone): the exception leaves the handler, which has
\* not registered the socket.
WsAccepted(o) ==
    /\ ws[o] = "accepting"
    /\ IF open[o]
       THEN /\ lock = "free"
            /\ connections' = Add(connections, o)
            /\ wire' = [wire EXCEPT ![o] = Append(@, SnapshotMsg(polls, options))]
            /\ ws' = [ws EXCEPT ![o] = "snapshot"]
            /\ hist' = HistLive(hist, connections')
       ELSE /\ ws' = [ws EXCEPT ![o] = "done"]
            /\ UNCHANGED <<connections, wire, hist>>
    /\ UNCHANGED <<polls, options, lock, open, stalled, snapSent, absent, req, nreq>>

\* except ...: await manager.disconnect(websocket)
WsDisconnect(o) ==
    /\ lock = "free"
    /\ connections' = Discard(connections, o).set
    /\ ws' = [ws EXCEPT ![o] = IF Discard(connections, o).raised THEN "keyerror" ELSE "done"]
    /\ absent' = IF o \in connections THEN absent ELSE absent \cup {o}
    /\ hist' = HistLive(hist, connections')

\* send_json of the snapshot returns (enter the receive loop) or raises
\* (disconnect and leave).
WsSnapshotReturn(o) ==
    /\ ws[o] = "snapshot"
    /\ o \notin stalled
    /\ IF open[o]
       THEN /\ snapSent' = [snapSent EXCEPT ![o] = TRUE]
            /\ ws' = [ws EXCEPT ![o] = "receiving"]
            /\ UNCHANGED <<connections, absent, hist>>
       ELSE /\ WsDisconnect(o)
            /\ UNCHANGED snapSent
    /\ UNCHANGED <<polls, options, lock, open, stalled, wire, req, nreq>>

\* (faulty variant: the handler leaves the receive loop without disconnect)
WsClosed_NoDisconnect(o) ==
    /\ ws[o] = "receiving"
    /\ ~open[o]
    /\ ws' = [ws EXCEPT ![o] = "done"]
    /\ UNCHANGED <<polls, options, connections, lock, open, stalled, wire, snapSent, absent, req,
                   nreq, hist>>

\* receive_text() raises WebSocketDisconnect: disconnect and leave.
WsClosed(o) ==
    /\ ws[o] = "receiving"
    /\ ~open[o]
    /\ WsDisconnect(o)
    /\ UNCHANGED <<polls, options, lock, open, stalled, wire, snapSent, req, nreq>>

\* The peer closes its socket (or its network drops).
ClientClose(o) ==
    /\ ws[o] \in {"accepting", "snapshot", "receiving"}
    /\ open[o]
    /\ o \notin stalled
    /\ open' = [open EXCEPT ![o] = FALSE]
    /\ UNCHANGED <<polls, options, connections, lock, ws, stalled, wire, snapSent, absent, req, nreq, hist>>

\* The peer keeps its socket open but stops reading from it: a send_json on
\* it that has not returned never returns and never raises.
ClientStall(o) ==
    /\ ws[o] \in {"snapshot", "receiving"}
    /\ open[o]
    /\ o \notin stalled
    /\ stalled' = stalled \cup {o}
    /\ UNCHANGED <<polls, options, connections, lock, ws, open, wire, snapSent, absent, req, nreq, hist>>

\* ------------------------------------------------------------- broadcast
\* The rows of poll pid as they are in the tables ps, os (kept in hist).
Rows(ps, os, pid) ==
    [likes |-> ps[pid].likes,
     votes |-> [i \in {j \in 1..Len(os) : os[j].poll_id = pid} |-> os[i].votes]]

Event(type, t, poll) == [type |-> type, req |-> t, poll |-> poll, polls |-> <<>>]

\* the handler has returned: its locals are gone
Returned(r, status, result) ==
    [NoReq EXCEPT !.kind = r.kind, !.poll_id = r.poll_id, !.option_id = r.option_id,
                  !.pc = "done", !.status = status, !.result = result]

\* the status of the response once the handler returns
OkStatus(kind) == IF kind = "create" THEN 201 ELSE 200

\* (faulty variant: the delivery loop is inside `async with self._lock`)
BroadcastCall_HoldLock(t, r, message, rows) ==
    /\ lock = "free"
    /\ \E conns \in ListsOf(connections) :
         IF conns = <<>>
         THEN /\ req' = [req EXCEPT ![t] =
                            [NoReq EXCEPT !.kind = r.kind, !.poll_id = r.poll_id,
                                          !.option_id = r.option_id, !.pc = "done",
                                          !.status = IF r.kind = "create" THEN 201 ELSE 200,
                                          !.result = message.poll]]
              /\ wire' = wire
              /\ lock' = "free"
         ELSE /\ req' = [req EXCEPT ![t] =
                            [r EXCEPT !.pc = "sending", !.message = message,
                                      !.result = message.poll,
                                      !.connections = conns, !.idx = 1]]
              /\ wire' = [wire EXCEPT ![conns[1]] = Append(@, message)]
              /\ lock' = "held"
    /\ hist' = [hist EXCEPT ![t] =
                   [liveAtSnap |-> connections, alwaysLive |-> connections,
                    joined |-> {}, failed |-> {}, committed |-> rows]]
    /\ UNCHANGED connections

\* manager.broadcast(message), up to its first send_json: take the lock, copy
\* the set, release the lock, call send_json on the first connection.  With
\* no connection the call returns at once and so does the handler.
BroadcastCall(t, r, message, rows) ==
    /\ lock = "free"
    /\ \E conns \in ListsOf(connections) :
         IF conns = <<>>
         THEN /\ req' = [req EXCEPT ![t] = Returned(r, OkStatus(r.kind), message.poll)]
              /\ wire' = wire
         ELSE /\ req' = [req EXCEPT ![t] =
                            [r EXCEPT !.pc = "sending", !.message = message,
                                      !.result = message.poll,
                                      !.connections = conns, !.idx = 1]]
              /\ wire' = [wire EXCEPT ![conns[1]] = Append(@, message)]
    /\ lock' = "free"
    /\ hist' = [hist EXCEPT ![t] =
                   [liveAtSnap |-> connections, alwaysLive |-> connections,
                    joined |-> {}, failed |-> {}, committed |-> rows]]
    /\ UNCHANGED connections

\* (faulty variant: the first send_json that raises ends the loop)
SendReturn_BreakOnError(t) ==
    LET r     == req[t]
        o     == r.connections[r.idx]
        stale == IF open[o] THEN r.stale ELSE r.stale \cup {o}
        fail  == IF open[o] THEN hist[t].failed ELSE hist[t].failed \cup {o}
    IN  /\ r.pc = "sending"
        /\ o \notin stalled
        /\ IF r.idx < Len(r.connections) /\ open[o]
           THEN /\ req' = [req EXCEPT ![t] = [r EXCEPT !.idx = r.idx + 1, !.stale = stale]]
                /\ wire' = [wire EXCEPT ![r.connections[r.idx + 1]] = Append(@, r.message)]
                /\ hist' = [hist EXCEPT ![t].failed = fail]
                /\ UNCHANGED connections
           ELSE /\ stale # {} => lock = "free"
                /\ connections' = connections \ stale
                /\ req' = [req EXCEPT ![t] =
                              [NoReq EXCEPT !.kind = r.kind, !.poll_id = r.poll_id,
                                            !.option_id = r.option_id, !.pc = "done",
                                            !.status = 200, !.result = r.result]]
                /\ hist' = [u \in Tasks |->
                               IF req[u].pc = "sending"
                               THEN [hist[u] EXCEPT !.alwaysLive = @ \cap connections',
                                                    !.failed = IF u = t THEN fail ELSE @]
                               ELSE hist[u]]
                /\ UNCHANGED wire
        /\ UNCHANGED <<polls, options, lock, ws, open, stalled, snapSent, absent, nreq>>

\* (faulty variant: an exception of send_json leaves broadcast and the
\* handler, which answers 500)
SendReturn_Propagate(t) ==
    LET r == req[t]
        o == r.connections[r.idx]
    IN  /\ r.pc = "sending"
        /\ o \notin stalled
        /\ IF ~open[o]
           THEN /\ req' = [req EXCEPT ![t] =
                              [NoReq EXCEPT !.kind = r.kind, !.poll_id = r.poll_id,
                                            !.option_id = r.option_id, !.pc = "done",
                                            !.status = 500]]
                /\ hist' = [hist EXCEPT ![t].failed = @ \cup {o}]
                /\ UNCHANGED <<connections, wire>>
           ELSE IF r.idx < Len(r.connections)
           THEN /\ req' = [req EXCEPT ![t] = [r EXCEPT !.idx = r.idx + 1]]
                /\ wire' = [wire EXCEPT ![r.connections[r.idx + 1]] = Append(@, r.message)]
                /\ UNCHANGED <<connections, hist>>
           ELSE /\ req' = [req EXCEPT ![t] =
                              [NoReq EXCEPT !.kind = r.kind, !.poll_id = r.poll_id,
                                            !.option_id = r.option_id, !.pc = "done",
                                            !.status = 200, !.result = r.result]]
                /\ UNCHANGED <<connections, wire, hist>>
        /\ UNCHANGED <<polls, options, lock, ws, open, stalled, snapSent, absent, nreq>>

\* send_json to connections[idx] returns or raises; then the next send_json
\* is called, or the loop is over: drop the stale connections and return.
SendReturn(t) ==
    LET r     == req[t]
        o     == r.connections[r.idx]
        stale == IF open[o] THEN r.stale ELSE r.stale \cup {o}
        fail  == IF open[o] THEN hist[t].failed ELSE hist[t].failed \cup {o}
    IN  /\ r.pc = "sending"
        /\ o \notin stalled
        /\ IF r.idx < Len(r.connections)
           THEN /\ req' = [req EXCEPT ![t] = [r EXCEPT !.idx = r.idx + 1, !.stale = stale]]
                /\ wire' = [wire EXCEPT ![r.connections[r.idx + 1]] = Append(@, r.message)]
                /\ hist' = [hist EXCEPT ![t].failed = fail]
                /\ UNCHANGED connections
           ELSE /\ stale # {} => lock = "free"
                /\ connections' = Cleanup(connections, r.connections, stale)
                /\ req' = [req EXCEPT ![t] = Returned(r, OkStatus(r.kind), r.result)]
                /\ hist' = [HistLive(hist, connections') EXCEPT ![t].failed = fail]
                /\ UNCHANGED wire
        /\ UNCHANGED <<polls, options, lock, ws, open, stalled, snapSent, absent, nreq>>

\* ------------------------------------------------------------- requests
Request(kind, pid, oid) == [NoReq EXCEPT !.kind = kind, !.poll_id = pid, !.option_id = oid]

\* raise HTTPException(status_code=...): nothing was written, nothing is sent
Fail(t, r, status) ==
    /\ req' = [req EXCEPT ![t] = Returned(r, status, NoPoll)]
    /\ UNCHANGED <<polls, options, connections, lock, wire, hist>>

\* POST /polls
create_poll(question, opts) ==
    LET t       == nreq + 1
        r       == Request("create", 0, 0)
        cleaned == CleanOptions(opts)
        pid     == Len(polls) + 1
        ps      == Append(polls, NewPoll(Strip(question)))
        os      == options \o [i \in 1..Len(cleaned) |-> NewOption(cleaned[i], pid)]
    IN  /\ nreq < MaxReq
        /\ nreq' = t
        /\ IF Len(cleaned) < 2
           THEN Fail(t, r, 400)
           ELSE /\ Len(polls) < MaxPolls
                /\ polls' = ps
                /\ options' = os
                /\ BroadcastCall(t, [r EXCEPT !.poll_id = pid],
                                 Event("poll_created", t, serialize_poll(ps, os, pid)),
                                 Rows(ps, os, pid))
        /\ UNCHANGED <<ws, open, stalled, snapSent, absent>>

\* (faulty variant: the event is built from the poll as read before the commit)
vote_on_poll_StalePayload(pid, oid) ==
    LET t  == nreq + 1
        r  == [NoReq EXCEPT !.kind = "vote", !.poll_id = pid, !.option_id = oid]
        os == [options EXCEPT ![oid].votes = @ + 1]
    IN  /\ nreq < MaxReq
        /\ nreq' = t
        /\ IF pid \notin 1..Len(polls)
           THEN Fail(t, r, 404)
           ELSE IF oid \notin 1..Len(options) \/ options[oid].poll_id # pid
           THEN Fail(t, r, 400)
           ELSE /\ options' = os
                /\ polls' = polls
                /\ BroadcastCall(t, r,
                                 Event("poll_updated", t, serialize_poll(polls, options, pid)),
                                 Rows(polls, os, pid))
        /\ UNCHANGED <<ws, open, stalled, snapSent, absent>>

\* (faulty variant: the vote is counted before the option is checked to
\* belong to the poll)
vote_on_poll_CountFirst(pid, oid) ==
    LET t  == nreq + 1
        r  == [NoReq EXCEPT !.kind = "vote", !.poll_id = pid, !.option_id = oid]
        os == [options EXCEPT ![oid].votes = @ + 1]
    IN  /\ nreq < MaxReq
        /\ nreq' = t
        /\ IF pid \notin 1..Len(polls)
           THEN Fail(t, r, 404)
           ELSE IF oid \notin 1..Len(options)
           THEN Fail(t, r, 400)
           ELSE IF options[oid].poll_id # pid
           THEN /\ options' = os
                /\ req' = [req EXCEPT ![t] = Returned(r, 400, NoPoll)]
                /\ UNCHANGED <<polls, connections, lock, wire, hist>>
           ELSE /\ options' = os
                /\ polls' = polls
                /\ BroadcastCall(t, r, Event("poll_updated", t, serialize_poll(polls, os, pid)),
                                 Rows(polls, os, pid))
        /\ UNCHANGED <<ws, open, stalled, snapSent, absent>>

\* (faulty variant: every option of the poll is incremented)
vote_on_poll_AllOptions(pid, oid) ==
    LET t  == nreq + 1
        r  == [NoReq EXCEPT !.kind = "vote", !.poll_id = pid, !.option_id = oid]
        os == [i \in 1..Len(options) |->
                 IF options[i].poll_id = pid
                 THEN [options[i] EXCEPT !.votes = @ + 1] ELSE options[i]]
    IN  /\ nreq < MaxReq
        /\ nreq' = t
        /\ IF pid \notin 1..Len(polls)
           THEN Fail(t, r, 404)
           ELSE IF oid \notin 1..Len(options) \/ options[oid].poll_id # pid
           THEN Fail(t, r, 400)
           ELSE /\ options' = os
                /\ polls' = polls
                /\ BroadcastCall(t, r, Event("poll_updated", t, serialize_poll(polls, os, pid)),
                                 Rows(polls, os, pid))
        /\ UNCHANGED <<ws, open, stalled, snapSent, absent>>

\* (faulty variant: an option id that is not in the store is answered 404)
vote_on_poll_NotFound(pid, oid) ==
    LET t  == nreq + 1
        r  == [NoReq EXCEPT !.kind = "vote", !.poll_id = pid, !.option_id = oid]
        os == [options EXCEPT ![oid].votes = @ + 1]
    IN  /\ nreq < MaxReq
        /\ nreq' = t
        /\ IF pid \notin 1..Len(polls) \/ oid \notin 1..Len(options)
           THEN Fail(t, r, 404)
           ELSE IF options[oid].poll_id # pid
           THEN Fail(t, r, 400)
           ELSE /\ options' = os
                /\ polls' = polls
                /\ BroadcastCall(t, r, Event("poll_updated", t, serialize_poll(polls, os, pid)),
                                 Rows(polls, os, pid))
        /\ UNCHANGED <<ws, open, stalled, snapSent, absent>>

\* (faulty variant: the count is read before a concurrent vote for the same
\* option commits and written after it, so one of the two votes is lost)
vote_on_poll_StaleRead(pid, oid) ==
    LET t     == nreq + 1
        r     == [NoReq EXCEPT !.kind = "vote", !.poll_id = pid, !.option_id = oid]
        racer == \E u \in 1..nreq :
                     req[u].kind = "vote" /\ req[u].option_id = oid /\ req[u].pc = "sending"
        os    == [options EXCEPT ![oid].votes = IF racer THEN @ ELSE @ + 1]
    IN  /\ nreq < MaxReq
        /\ nreq' = t
        /\ IF pid \notin 1..Len(polls)
           THEN Fail(t, r, 404)
           ELSE IF oid \notin 1..Len(options) \/ options[oid].poll_id # pid
           THEN Fail(t, r, 400)
           ELSE /\ options' = os
                /\ polls' = polls
                /\ BroadcastCall(t, r, Event("poll_updated", t, serialize_poll(polls, os, pid)),
                                 Rows(polls, os, pid))
        /\ UNCHANGED <<ws, open, stalled, snapSent, absent>>

\* POST /polls/{poll_id}/vote
vote_on_poll(pid, oid) ==
    LET t  == nreq + 1
        r  == Request("vote", pid, oid)
        os == [options EXCEPT ![oid].votes = @ + 1]
    IN  /\ nreq < MaxReq
        /\ nreq' = t
        /\ IF pid \notin 1..Len(polls)
           THEN Fail(t, r, 404)
           ELSE IF oid \notin 1..Len(options) \/ options[oid].poll_id # pid
           THEN Fail(t, r, 400)
           ELSE /\ options' = os
                /\ polls' = polls
                /\ BroadcastCall(t, r, Event("poll_updated", t, serialize_poll(polls, os, pid)),
                                 Rows(polls, os, pid))
        /\ UNCHANGED <<ws, open, stalled, snapSent, absent>>

\* (faulty variant: the like is added to every poll)
like_poll_AllPolls(pid) ==
    LET t  == nreq + 1
        r  == [NoReq EXCEPT !.kind = "like", !.poll_id = pid]
        ps == [p \in 1..Len(polls) |-> [polls[p] EXCEPT !.likes = @ + 1]]
    IN  /\ nreq < MaxReq
        /\ nreq' = t
        /\ IF pid \notin 1..Len(polls)
           THEN Fail(t, r, 404)
           ELSE /\ polls' = ps
                /\ options' = options
                /\ BroadcastCall(t, r, Event("poll_updated", t, serialize_poll(ps, options, pid)),
                                 Rows(ps, options, pid))
        /\ UNCHANGED <<ws, open, stalled, snapSent, absent>>

\* (faulty variant: a like on a poll that has likes takes one back)
like_poll_Toggle(pid) ==
    LET t  == nreq + 1
        r  == [NoReq EXCEPT !.kind = "like", !.poll_id = pid]
        ps == [polls EXCEPT ![pid].likes = IF @ > 0 THEN @ - 1 ELSE @ + 1]
    IN  /\ nreq < MaxReq
        /\ nreq' = t
        /\ IF pid \notin 1..Len(polls)
           THEN Fail(t, r, 404)
           ELSE /\ polls' = ps
                /\ options' = options
                /\ BroadcastCall(t, r, Event("poll_updated", t, serialize_poll(ps, options, pid)),
                                 Rows(ps, options, pid))
        /\ UNCHANGED <<ws, open, stalled, snapSent, absent>>

\* POST /polls/{poll_id}/like
like_poll(pid) ==
    LET t  == nreq + 1
        r  == Request("like", pid, 0)
        ps == [polls EXCEPT ![pid].likes = @ + 1]
    IN  /\ nreq < MaxReq
        /\ nreq' = t
        /\ IF pid \notin 1..Len(polls)
           THEN Fail(t, r, 404)
           ELSE /\ polls' = ps
                /\ options' = options
                /\ BroadcastCall(t, r, Event("poll_updated", t, serialize_poll(ps, options, pid)),
                                 Rows(ps, options, pid))
        /\ UNCHANGED <<ws, open, stalled, snapSent, absent>>

\* ------------------------------------------------------------- next
Next ==
    \/ \E o \in Observers : WsOpen(o)
    \/ \E o \in Observers : WsAccepted(o)
    \/ \E o \in Observers : WsSnapshotReturn(o)
    \/ \E o \in Observers : WsClosed(o)
    \/ \E o \in Observers : ClientClose(o)
    \/ \E o \in Observers : ClientStall(o)
    \/ \E q \in Questions, opts \in OptionLists : create_poll(q, opts)
    \/ \E pid \in PollIds, oid \in OptionIds : vote_on_poll(pid, oid)
    \/ \E pid \in PollIds : like_poll(pid)
    \/ \E t \in Tasks : SendReturn(t)

Spec == Init /\ [][Next]_vars

\* The event loop resumes every handler whose awaited network call has
\* completed: accept(), the snapshot's send_json, receive_text() on a closed
\* socket, a broadcast's send_json.  Clients and requests owe nothing.
Fairness ==
    /\ \A o \in Observers :
          WF_vars(WsAccepted(o)) /\ WF_vars(WsSnapshotReturn(o)) /\ WF_vars(WsClosed(o))
    /\ \A t \in Tasks : WF_vars(SendReturn(t))

FairSpec == Spec /\ Fairness

\* ------------------------------------------------------------- observations
\* send_json calls of request t's broadcast on websocket o
Attempts(t, o) == Cardinality({i \in 1..Len(wire[o]) : wire[o][i].req = t})

Broadcasts == {"poll_created", "poll_updated"}

\* requests whose mutation was committed
Committed == {t \in Tasks : hist[t].committed # NoRow}

\* o has been registered, its peer is still there and no one removed it
Live(o) == o \in connections /\ open[o]

\* likes and votes carried by a poll payload, by option id
PayloadRows(poll) ==
    [likes |-> poll.likes,
     votes |-> [i \in {poll.options[k].id : k \in 1..Len(poll.options)} |->
                  poll.options[CHOOSE k \in 1..Len(poll.options) : poll.options[k].id = i].votes]]

\* the frames on o's wire that carry the state of poll p
Mentions(o, p) ==
    {i \in 1..Len(wire[o]) :
        \/ wire[o][i].poll.id = p
        \/ \E k \in 1..Len(wire[o][i].polls) : wire[o][i].polls[k].id = p}

\* the state of poll p in frame m
PayloadOf(m, p) ==
    IF m.poll.id = p THEN m.poll
    ELSE m.polls[CHOOSE k \in 1..Len(m.polls) : m.polls[k].id = p]

\* the most recent state of poll p written to o
LastPayload(o, p) ==
    PayloadOf(wire[o][CHOOSE i \in Mentions(o, p) : \A j \in Mentions(o, p) : j <= i], p)

\* every issued request has returned, so no broadcast is in progress
Quiescent == \A t \in 1..nreq : req[t].pc = "done"

\* ------------------------------------------------------------- C1
\* C1: a broadcast calls send_json at most once per websocket; when it
\* returns, every websocket that was in the live set during the whole call
\* has had exactly one call; a websocket that was out of the live set when
\* the broadcast took its snapshot has had none.
C1_OneAttemptEach ==
    \A t \in Tasks, o \in Observers :
        /\ Attempts(t, o) <= 1
        /\ (req[t].pc = "done" /\ o \in hist[t].alwaysLive) => Attempts(t, o) = 1
        /\ o \notin hist[t].liveAtSnap => Attempts(t, o) = 0

\* a returned broadcast that served one websocket live all along, after
\* another websocket had been registered and disconnected
C1_Witness ==
    \E t \in Tasks, o, d \in Observers :
        /\ req[t].pc = "done" /\ req[t].status = 200
        /\ o \in hist[t].alwaysLive /\ Attempts(t, o) = 1
        /\ d # o /\ ws[d] = "done" /\ wire[d] # <<>>
        /\ d \notin hist[t].liveAtSnap /\ Attempts(t, d) = 0

\* ------------------------------------------------------------- C2
\* C2 (as claimed): a websocket that stays live receives the events of the
\* mutations in the order the mutations were committed (requests are
\* numbered in commit order).
C2_CommitOrder ==
    \A o \in Observers :
        Live(o) =>
            \A i, j \in 1..Len(wire[o]) :
                (i < j /\ wire[o][i].type \in Broadcasts /\ wire[o][j].type \in Broadcasts)
                    => wire[o][i].req < wire[o][j].req

\* ------------------------------------------------------------- C3
\* C3 (as claimed): once every request has returned, the last state of a
\* poll written to a websocket that is live and in its receive loop is the
\* poll's state in the store.
C3_Converged ==
    Quiescent =>
        \A o \in Observers :
            (Live(o) /\ ws[o] = "receiving") =>
                \A p \in 1..Len(polls) :
                    Mentions(o, p) # {} => LastPayload(o, p) = serialize_poll(polls, options, p)

\* ------------------------------------------------------------- C4
\* C4: every poll_created / poll_updated event, on a wire or still being
\* delivered, carries the likes and votes its poll had in the tables right
\* after the commit of the request that sent it.
C4_PayloadIsCommitted ==
    /\ \A o \in Observers : \A i \in 1..Len(wire[o]) :
          wire[o][i].type \in Broadcasts =>
              /\ wire[o][i].req \in Committed
              /\ PayloadRows(wire[o][i].poll) = hist[wire[o][i].req].committed
    /\ \A t \in Tasks :
          req[t].pc = "sending" =>
              /\ t \in Committed
              /\ PayloadRows(req[t].message.poll) = hist[t].committed

\* a poll_updated event of a vote is on a wire
C4_Witness ==
    \E o \in Observers : \E i \in 1..Len(wire[o]) :
        /\ wire[o][i].type = "poll_updated"
        /\ req[wire[o][i].req].kind = "vote"
        /\ \E k \in 1..Len(wire[o][i].poll.options) : wire[o][i].poll.options[k].votes > 0

\* ------------------------------------------------------------- C5
\* C5: the step in which a request fails (400 or 404) changes no poll, no
\* option, not the live set, and writes nothing to any websocket; the
\* request holds no event to deliver.
C5_FailureChangesNothing ==
    [][\A t \in Tasks :
          (req[t].pc = "new" /\ req'[t].status \in {400, 404}) =>
              /\ polls' = polls
              /\ options' = options
              /\ connections' = connections
              /\ wire' = wire
              /\ req'[t].pc = "done" /\ req'[t].message = NoMsg]_vars

\* a vote was refused because its option belongs to another poll, while a
\* websocket was live
C5_Witness ==
    \E t \in Tasks :
        /\ req[t].kind = "vote" /\ req[t].status = 400
        /\ req[t].option_id \in 1..Len(options)
        /\ req[t].poll_id \in 1..Len(polls)
        /\ options[req[t].option_id].poll_id # req[t].poll_id
        /\ connections # {}

\* ------------------------------------------------------------- C6
\* C6 (as claimed): a websocket is in the live set only once the send of its
\* poll_snapshot has returned.
C6_SnapshotThenRegister ==
    \A o \in Observers : o \in connections => snapSent[o]

\* C6 (amended): the websocket is registered first and sent its snapshot
\* afterwards: while the send of the poll_snapshot is under way on an open
\* websocket, that websocket is in the live set.
C6_RegisterThenSnapshot ==
    \A o \in Observers : (ws[o] = "snapshot" /\ open[o]) => o \in connections

\* a registered websocket whose snapshot send has not returned
C6_Witness ==
    \E o \in Observers :
        /\ ws[o] = "snapshot" /\ open[o] /\ ~snapSent[o]
        /\ o \in connections
        /\ wire[o][1].type = "poll_snapshot"

\* ------------------------------------------------------------- C7
\* C7: the first frame written to a websocket is its poll_snapshot, and no
\* later frame is one.
C7_SnapshotFirst ==
    \A o \in Observers : \A i \in 1..Len(wire[o]) :
        (wire[o][i].type = "poll_snapshot") <=> (i = 1)

\* a broadcast wrote to a websocket whose snapshot send was still under way
C7_Witness ==
    \E o \in Observers :
        /\ ws[o] = "snapshot"
        /\ Len(wire[o]) >= 2
        /\ wire[o][2].type \in Broadcasts

\* ------------------------------------------------------------- C8
\* the snapshot written to o shows poll state at least as new as request t's
Reflected(t, o) ==
    \E k \in 1..Len(wire[o][1].polls) :
        LET shown == PayloadRows(wire[o][1].polls[k])
            done  == hist[t].committed
        IN  /\ wire[o][1].polls[k].id = req[t].poll_id
            /\ shown.likes >= done.likes
            /\ DOMAIN shown.votes = DOMAIN done.votes
            /\ \A i \in DOMAIN done.votes : shown.votes[i] >= done.votes[i]

\* request t's broadcast will still call send_json on o
Pending(t, o) ==
    /\ req[t].pc = "sending"
    /\ \E k \in (req[t].idx + 1)..Len(req[t].connections) : req[t].connections[k] = o

\* C8: for a websocket whose handler got past accept() and whose peer is
\* still there, every committed mutation is shown by the snapshot written to
\* it, or its event has been written to it, or is about to be.
C8_NothingMissed ==
    \A o \in Observers :
        (ws[o] \in {"snapshot", "receiving"} /\ open[o]) =>
            \A t \in Committed :
                Reflected(t, o) \/ Attempts(t, o) = 1 \/ Pending(t, o)

\* a live websocket with one mutation in its snapshot and a later one sent
\* to it as an event
C8_Witness ==
    \E o \in Observers, t, u \in Committed :
        /\ ws[o] = "receiving" /\ open[o]
        /\ Reflected(t, o) /\ Attempts(t, o) = 0
        /\ ~Reflected(u, o) /\ Attempts(u, o) = 1

\* ------------------------------------------------------------- C9
\* C9: disconnect never raises, and a disconnect of a websocket that is not
\* in the live set (removed before, or never added) leaves the set as it is.
C9_DisconnectIdempotent ==
    [][\A o \in Observers :
          /\ ws'[o] # "keyerror"
          /\ (ws[o] \in {"snapshot", "receiving"} /\ ws'[o] \in {"done", "keyerror"}
                /\ o \notin connections)
               => connections' = connections]_vars

\* a handler called disconnect after a broadcast had already dropped its
\* websocket as stale
C9_Witness ==
    \E o \in Observers, t \in Tasks :
        /\ o \in absent /\ ws[o] = "done"
        /\ o \in hist[t].failed /\ req[t].pc = "done"

\* ------------------------------------------------------------- C10
\* C10: the step in which a broadcast returns takes out of the live set
\* exactly the websockets whose send_json raised during that broadcast.
C10_CleanupExact ==
    [][\A t \in Tasks :
          (req[t].pc = "sending" /\ req'[t].pc = "done") =>
              connections' = connections \ hist'[t].failed]_vars

\* a returned broadcast whose send to one websocket failed, which is gone,
\* while a websocket that joined during the delivery is still in the set
C10_Witness ==
    \E t \in Tasks, o, j \in Observers :
        /\ req[t].pc = "done"
        /\ o \in hist[t].failed /\ o \notin connections
        /\ j \in hist[t].joined /\ j \in connections

\* ------------------------------------------------------------- C11
\* C11: a broadcast in which a send_json raised has still called send_json
\* once on every websocket of its snapshot, and its request has returned
\* its success status with the poll as committed, which the tables still
\* hold or exceed.
C11_FailureContained ==
    \A t \in Tasks :
        (req[t].pc = "done" /\ hist[t].failed # {}) =>
            /\ \A o \in hist[t].liveAtSnap : Attempts(t, o) = 1
            /\ req[t].status = OkStatus(req[t].kind)
            /\ PayloadRows(req[t].result) = hist[t].committed
            /\ Rows(polls, options, req[t].poll_id).likes >= hist[t].committed.likes
            /\ \A i \in DOMAIN hist[t].committed.votes :
                  options[i].votes >= hist[t].committed.votes[i]

\* a returned vote whose broadcast failed on the first websocket of its
\* list and went on to the second
C11_Witness ==
    \E t \in Tasks, o, p \in Observers :
        /\ req[t].pc = "done" /\ req[t].kind = "vote" /\ req[t].status = 200
        /\ o \in hist[t].failed
        /\ p \in hist[t].liveAtSnap \ hist[t].failed
        /\ Attempts(t, p) = 1
        /\ wire[p][Len(wire[p])].req = t
        /\ wire[o][Len(wire[o])].req = t

\* ------------------------------------------------------------- C12
\* C12: while a broadcast is in its delivery loop the lock is free, so a
\* handler waiting to register its websocket, or to disconnect it, can run.
C12_LockFreeWhileSending ==
    (\E t \in Tasks : req[t].pc = "sending") =>
        /\ lock = "free"
        /\ \A o \in Observers :
              /\ ws[o] = "accepting" => ENABLED WsAccepted(o)
              /\ (ws[o] = "receiving" /\ ~open[o]) => ENABLED WsClosed(o)

\* during one broadcast's delivery loop a websocket registered and a second
\* broadcast took its own snapshot, with that websocket in it
C12_Witness ==
    \E t, u \in Tasks, o \in Observers :
        /\ t # u
        /\ req[t].pc = "sending" /\ req[u].pc = "sending"
        /\ o \in hist[t].joined
        /\ o \in hist[u].liveAtSnap

\* ------------------------------------------------------------- C13
\* the websocket whose send_json request t's broadcast is waiting for
Awaited(t) == req[t].connections[req[t].idx]

\* C13 (as claimed): a send that hangs holds back no one else.  A stalled
\* peer never reads again and the loop awaits each send in turn, so a
\* websocket listed after the one that hangs is never reached: the claim
\* requires that no live websocket is ever in that position.
C13_HangContained ==
    \A t \in Tasks, o \in Observers :
        (req[t].pc = "sending" /\ Awaited(t) \in stalled)
            => ~(Pending(t, o) /\ Live(o) /\ o \notin stalled /\ ws[o] = "receiving")

\* ------------------------------------------------------------- C14
\* C14: a websocket in the live set whose peer has closed it is eventually
\* out of the live set.
C14_ClosedEventuallyRemoved ==
    \A o \in Observers : (o \in connections /\ ~open[o]) ~> (o \notin connections)

\* a websocket that was registered, got its snapshot, was closed by its peer
\* and was taken out of the set by its own handler
C14_Witness ==
    \E o \in Observers :
        /\ ~open[o] /\ ws[o] = "done"
        /\ snapSent[o] /\ o \notin absent
        /\ o \notin connections

\* ------------------------------------------------------------- C15
\* request t is issued in this step, is of this kind and is not refused
Succeeds(t, kind) ==
    /\ req[t].pc = "new"
    /\ req'[t].kind = kind
    /\ req'[t].status \notin {400, 404}

\* C15: the step of a successful vote adds 1 to the votes of the option
\* voted for and changes no other option's votes, no option's poll or text,
\* no poll's likes, and neither table's length.
C15_VoteEffect ==
    [][\A t \in Tasks :
          Succeeds(t, "vote") =>
              /\ Len(options') = Len(options)
              /\ Len(polls') = Len(polls)
              /\ \A i \in 1..Len(options) :
                    /\ options'[i].votes =
                          options[i].votes + (IF i = req'[t].option_id THEN 1 ELSE 0)
                    /\ options'[i].poll_id = options[i].poll_id
                    /\ options'[i].text = options[i].text
              /\ \A p \in 1..Len(polls) : polls'[p] = polls[p]]_vars

\* a vote went through on a poll that has a like: one option has the vote,
\* its sibling has none, the like is still there
C15_Witness ==
    \E t \in Tasks :
        /\ req[t].kind = "vote" /\ t \in Committed
        /\ options[req[t].option_id].votes = 1
        /\ polls[req[t].poll_id].likes = 1
        /\ \E i \in 1..Len(options) :
              /\ i # req[t].option_id
              /\ options[i].poll_id = req[t].poll_id
              /\ options[i].votes = 0

\* ------------------------------------------------------------- C16
\* C16: the step of a successful like adds 1 to the likes of the poll liked
\* and changes no other poll's likes and no option.
C16_LikeEffect ==
    [][\A t \in Tasks :
          Succeeds(t, "like") =>
              /\ Len(polls') = Len(polls)
              /\ \A p \in 1..Len(polls) :
                    /\ polls'[p].likes = polls[p].likes + (IF p = req'[t].poll_id THEN 1 ELSE 0)
                    /\ polls'[p].question = polls[p].question
              /\ options' = options]_vars

\* a like went through on one of two polls: the other poll has no like and
\* the liked poll's options are as they were
C16_Witness ==
    \E t \in Tasks, p \in 1..Len(polls) :
        /\ req[t].kind = "like" /\ t \in Committed
        /\ polls[req[t].poll_id].likes = 1
        /\ p # req[t].poll_id /\ polls[p].likes = 0
        /\ \E i \in 1..Len(options) : options[i].poll_id = req[t].poll_id
        /\ \A i \in 1..Len(options) : options[i].votes = 0

\* ------------------------------------------------------------- C17
\* C17: no step lowers a poll's likes or an option's votes, both are never
\* negative, no step changes the poll an option belongs to, and no step
\* removes a poll or an option.
C17_CountersMonotone ==
    [][/\ Len(polls') >= Len(polls)
       /\ Len(options') >= Len(options)
       /\ \A p \in 1..Len(polls) : polls'[p].likes >= polls[p].likes /\ polls[p].likes >= 0
       /\ \A i \in 1..Len(options) :
             /\ options'[i].votes >= options[i].votes /\ options[i].votes >= 0
             /\ options'[i].poll_id = options[i].poll_id]_vars

\* the same poll was liked twice
C17_Witness ==
    \E p \in 1..Len(polls) :
        /\ polls[p].likes = 2
        /\ \A t \in 1..nreq : req[t].kind = "like" /\ req[t].poll_id = p

\* ------------------------------------------------------------- C18
\* Create requests with longer option lists: a text with a blank to trim,
\* repeated texts, whitespace-only entries between the others.  Observers
\* connect and receive; they do not leave, and nothing votes or likes.
T_b == <<Blank, "b">>

CreateTexts == {T_a, T_b, T_sp}

CreateLists == UNION {[1..n -> CreateTexts] : n \in 0..(MaxOpts + 1)}

CreateNext ==
    \/ \E o \in Observers : WsOpen(o)
    \/ \E o \in Observers : WsAccepted(o)
    \/ \E o \in Observers : WsSnapshotReturn(o)
    \/ \E q \in Questions, opts \in CreateLists : create_poll(q, opts)
    \/ \E t \in Tasks : SendReturn(t)

CreateSpec == Init /\ [][CreateNext]_vars

\* the entries of a request's option list that are not whitespace only
NonBlank(s) == \E i \in 1..Len(s) : s[i] # Blank

\* C18: a create request whose list has n >= 2 entries that are not
\* whitespace only stores a poll with likes 0 and exactly n options, the
\* trimmed entries in the order given, each with votes 0, after the options
\* already stored; the poll returned shows the same n options in that order.
C18_CreateShape ==
    [][\A q \in Questions, opts \in CreateLists :
          LET kept == SelectSeq(opts, NonBlank)
              n    == Len(kept)
              t    == nreq + 1
              pid  == Len(polls) + 1
          IN  (n >= 2 /\ create_poll(q, opts)) =>
                  /\ Len(polls') = pid
                  /\ polls'[pid].likes = 0
                  /\ Len(options') = Len(options) + n
                  /\ \A i \in 1..Len(options) : options'[i] = options[i]
                  /\ \A i \in 1..n :
                        /\ options'[Len(options) + i].text = Strip(kept[i])
                        /\ options'[Len(options) + i].votes = 0
                        /\ options'[Len(options) + i].poll_id = pid
                  /\ req'[t].result.likes = 0
                  /\ Len(req'[t].result.options) = n
                  /\ \A i \in 1..n :
                        /\ req'[t].result.options[i].id = Len(options) + i
                        /\ req'[t].result.options[i].text = Strip(kept[i])
                        /\ req'[t].result.options[i].votes = 0]_vars

\* a poll was created with three options, a repeated text among them and
\* one that had to be trimmed
C18_Witness ==
    \E t \in Tasks :
        /\ req[t].kind = "create" /\ t \in Committed
        /\ LET ids == OptionsOf(options, req[t].poll_id)
           IN  /\ Len(ids) = MaxOpts + 1
               /\ options[ids[1]].text = <<"b">>
               /\ options[ids[2]].text = <<"a">>
               /\ options[ids[3]].text = <<"b">>
               /\ \A i \in 1..Len(ids) : options[ids[i]].votes = 0
        /\ polls[req[t].poll_id].likes = 0

\* ------------------------------------------------------------- C19
\* request t is issued in this step: a vote on a poll that is in the store,
\* for an option id that is not
VotesForMissingOption(t) ==
    /\ req[t].pc = "new"
    /\ req'[t].kind = "vote"
    /\ req'[t].poll_id \in 1..Len(polls)
    /\ req'[t].option_id \notin 1..Len(options)

Accepted(kind) ==
    {t \in 1..nreq : req[t].kind = kind /\ req[t].status \notin {400, 404}}

\* C20: no update is lost.  Every option's votes is the number of accepted
\* vote requests for it and every poll's likes is the number of accepted
\* like requests for it (both start at 0), whatever the handlers'
\* interleaving; a request answered 200 is among the accepted ones.
C20_NoLostUpdate ==
    /\ \A i \in 1..Len(options) :
          options[i].votes = Cardinality({t \in Accepted("vote") : req[t].option_id = i})
    /\ \A p \in 1..Len(polls) :
          polls[p].likes = Cardinality({t \in Accepted("like") : req[t].poll_id = p})
    /\ \A t \in 1..nreq :
          (req[t].pc = "done" /\ req[t].status = 200) => t \in Committed

\* two handlers voting for the same option are both suspended in their
\* broadcast, and the option has both votes
C20_Witness ==
    \E t, u \in Tasks :
        /\ t # u
        /\ req[t].kind = "vote" /\ req[u].kind = "vote"
        /\ req[t].option_id = req[u].option_id
        /\ req[t].pc = "sending" /\ req[u].pc = "sending"
        /\ options[req[t].option_id].votes = 2
====
